---- MODULE Spec2Model ----
(***************************************************************************)
(* Low-rank adapter injection (peft/tuners/lora.py of MoSLoRA).            *)
(*                                                                         *)
(* The model follows the Python objects: a heap of nn.Module objects       *)
(* (objs), a heap of parameter tensors (tensors), the LoraModel under      *)
(* construction (config, kwargs, key_list, the loop position, the local    *)
(* variable new_module) and the outcome of the last call (pc, error,       *)
(* last).  Dotted module names are sequences of characters so that         *)
(* str.endswith, re.fullmatch, str.split and the "in" substring test are   *)
(* computed as Python computes them.                                       *)
(***************************************************************************)
EXTENDS Integers, Sequences, FiniteSets, TLC

VARIABLES
    objs,        \* heap of module objects, an object's id is its index
    tensors,     \* heap of parameter tensors, a tensor's id is its index
    config,      \* self.peft_config
    env,         \* the model's markers and the installed packages
    kwargs,      \* the local dict kwargs of _find_and_replace
    key_list,    \* the local list key_list of _find_and_replace
    idx,         \* position of the for loop in key_list (1-based)
    found,       \* the local is_target_modules_in_base_model
    new_module,  \* the local new_module (0: not yet bound)
    warned,      \* warnings.warn has been called
    pc,          \* where LoraModel.__init__ stands
    error,       \* the exception that ended __init__ ("none": none)
    last,        \* what the last runtime call returned or raised
    orig         \* the host network and the config as LoraModel received them

vars == <<objs, tensors, config, env, kwargs, key_list, idx, found,
          new_module, warned, pc, error, last, orig>>

(***************************************************************************)
(* Bounds of the exploration.                                              *)
(***************************************************************************)
NumBlocks == 2     \* blocks "0", "1", ... of the host network
MaxRank == 2       \* the positive rank tried beside r = 0
MaxBatch == 1      \* batch sizes 1..MaxBatch of the forward inputs
MaxSeq == 1        \* sequence lengths 1..MaxSeq of the forward inputs

\* lora_head = 4, the hyper-parameter fixed in Linear.__init__ and forward
lora_head == 4

(***************************************************************************)
(* Strings: sequences of one-character strings.                            *)
(***************************************************************************)
S_q == <<"q">>
S_v == <<"v">>
S_z == <<"z">>
S_dot == <<".">>
S_weight == <<"w", "e", "i", "g", "h", "t">>
S_bias == <<"b", "i", "a", "s">>
S_xbias == <<"x", "b", "i", "a", "s">>
S_lora_ == <<"l", "o", "r", "a", "_">>
S_lora_A == S_lora_ \o <<"A">>
S_lora_B == S_lora_ \o <<"B">>
S_lora_R == S_lora_ \o <<"R">>
S_lora_dropout == S_lora_ \o <<"d", "r", "o", "p", "o", "u", "t">>

\* the name of block i, as nn.ModuleList / nn.Sequential name their children
BlockName(i) == <<ToString(i)>>

\* key.endswith(target_key)
EndsWith(s, t) ==
    /\ Len(t) <= Len(s)
    /\ SubSeq(s, Len(s) - Len(t) + 1, Len(s)) = t

\* t in s, for strings
Contains(s, t) ==
    \E i \in 0..(Len(s) - Len(t)) : SubSeq(s, i + 1, i + Len(t)) = t

\* prefix + "." + name, as named_modules / named_parameters build names
Join(prefix, name) ==
    IF prefix = <<>> THEN name ELSE prefix \o S_dot \o name

\* index of the last "." of s, 0 if there is none
LastDot(s) ==
    IF \E i \in 1..Len(s) : s[i] = "."
    THEN CHOOSE i \in 1..Len(s) :
             /\ s[i] = "."
             /\ \A j \in (i + 1)..Len(s) : s[j] # "."
    ELSE 0

\* key.split(".")[-1]
TargetName(key) == SubSeq(key, LastDot(key) + 1, Len(key))

\* ".".join(key.split(".")[:-1])
ParentKey(key) ==
    IF LastDot(key) = 0 THEN <<>> ELSE SubSeq(key, 1, LastDot(key) - 1)

\* key.split(".") as a sequence of names; "" splits into [""]
RECURSIVE Split(_)
Split(key) ==
    IF \E i \in 1..Len(key) : key[i] = "."
    THEN LET i == CHOOSE k \in 1..Len(key) :
                      /\ key[k] = "."
                      /\ \A j \in 1..(k - 1) : key[j] # "."
         IN  <<SubSeq(key, 1, i - 1)>> \o Split(SubSeq(key, i + 1, Len(key)))
    ELSE <<key>>

(***************************************************************************)
(* Regular expressions: a pattern is a sequence of tokens, a token one     *)
(* character class ("ANY" is the dot, anything else a literal) with or     *)
(* without a star.                                                         *)
(***************************************************************************)
Lit(c) == [ch |-> c, star |-> FALSE]
AnyStar == [ch |-> "ANY", star |-> TRUE]

Fits(tok, c) == tok.ch = "ANY" \/ tok.ch = c

\* re.fullmatch(pattern, key) is not None
RECURSIVE FullMatch(_, _)
FullMatch(pattern, s) ==
    IF pattern = <<>>
    THEN s = <<>>
    ELSE LET tok == Head(pattern)
         IN  IF tok.star
             THEN \/ FullMatch(Tail(pattern), s)
                  \/ /\ s # <<>>
                     /\ Fits(tok, Head(s))
                     /\ FullMatch(pattern, Tail(s))
             ELSE /\ s # <<>>
                  /\ Fits(tok, Head(s))
                  /\ FullMatch(Tail(pattern), Tail(s))

StrSelector(pattern) == [isStr |-> TRUE, pattern |-> pattern, items |-> <<>>]
ListSelector(items) == [isStr |-> FALSE, pattern |-> <<>>, items |-> items]

\* lines 156-159: the test that decides whether key is a target
TargetModuleFound(target_modules, key) ==
    IF target_modules.isStr
    THEN FullMatch(target_modules.pattern, key)
    ELSE \E k \in 1..Len(target_modules.items) :
             EndsWith(key, target_modules.items[k])

(***************************************************************************)
(* The heap.  H is a record [objs, tensors]; a constructor returns the     *)
(* heap after the allocation, the constructed module being its last object.*)
(***************************************************************************)
Tensor(shape, val, requires_grad, device) ==
    [shape |-> shape, val |-> val, requires_grad |-> requires_grad,
     device |-> device]

LastObj(H) == Len(H.objs)

\* the attributes of a module object; weight = 0 / bias = 0 stand for None,
\* hasWeight / hasBias tell whether the attribute exists at all
Module(type, hasWeight, weight, hasBias, bias, in_features, out_features, children) ==
    [type |-> type, hasWeight |-> hasWeight, weight |-> weight,
     hasBias |-> hasBias, bias |-> bias,
     in_features |-> in_features, out_features |-> out_features,
     children |-> children, training |-> TRUE, state |-> FALSE,
     r |-> 0, lora_alpha |-> 0, scaling |-> <<>>, merged |-> FALSE,
     merge_weights |-> FALSE, disable_adapters |-> FALSE,
     fan_in_fan_out |-> FALSE, lora_router |-> FALSE,
     lora_router_mixer |-> FALSE]

\* torch.nn.Module(): a container without parameters of its own
NNContainer(H, children) ==
    [H EXCEPT !.objs =
        Append(@, Module("Container", FALSE, 0, FALSE, 0, 0, 0, children))]

\* torch.nn.Linear(in_features, out_features, bias): weight of shape
\* (out, in), bias of shape (out,), both trainable
NNLinear(H, type, in_features, out_features, bias, val, rg, device) ==
    [objs |-> Append(H.objs,
                     Module(type, TRUE, Len(H.tensors) + 1, TRUE,
                            IF bias THEN Len(H.tensors) + 2 ELSE 0,
                            in_features, out_features, <<>>)),
     tensors |-> H.tensors
                     \o <<Tensor(<<out_features, in_features>>, val, rg,
                                 device)>>
                     \o (IF bias
                         THEN <<Tensor(<<out_features>>, val, rg, device)>>
                         ELSE <<>>)]

\* transformers Conv1D(nf, nx): weight of shape (nx, nf) = (in, out), a bias,
\* no in_features / out_features attributes
Conv1D(H, nx, nf, val, rg, device) ==
    [objs |-> Append(H.objs,
                     Module("Conv1D", TRUE, Len(H.tensors) + 1, TRUE,
                            Len(H.tensors) + 2, 0, 0, <<>>)),
     tensors |-> H.tensors \o <<Tensor(<<nx, nf>>, val, rg, device),
                                Tensor(<<nf>>, val, rg, device)>>]

\* isinstance(m, torch.nn.Linear): Linear, bnb's Linear8bitLt and the adapter
\* layer all derive from nn.Linear
IsNNLinear(o) == o.type \in {"Linear", "Linear8bitLt", "LoraLinear"}

\* isinstance(m, LoraLayer)
IsLoraLayer(o) == o.type = "LoraLinear"

(***************************************************************************)
(* The module tree.                                                        *)
(***************************************************************************)
\* getattr(module, name) for a child module: its id, 0 if there is none
Child(H, o, name) ==
    IF \E k \in 1..Len(H.objs[o].children) : H.objs[o].children[k].name = name
    THEN H.objs[o].children[
             CHOOSE k \in 1..Len(H.objs[o].children) :
                 H.objs[o].children[k].name = name].id
    ELSE 0

HasChild(H, o, name) ==
    \E k \in 1..Len(H.objs[o].children) : H.objs[o].children[k].name = name

RECURSIVE Descend(_, _, _)
Descend(H, o, names) ==
    IF names = <<>> \/ o = 0
    THEN o
    ELSE Descend(H, Child(H, o, Head(names)), Tail(names))

\* nn.Module.get_submodule(target): the module at the dotted path, 0 where
\* torch raises AttributeError
GetSubmodule(H, root, target) ==
    IF target = <<>> THEN root ELSE Descend(H, root, Split(target))

RECURSIVE PreOrder(_, _, _)
RECURSIVE PreOrderChildren(_, _, _, _)
PreOrder(H, o, prefix) ==
    <<[name |-> prefix, id |-> o]>> \o PreOrderChildren(H, o, prefix, 1)
PreOrderChildren(H, o, prefix, k) ==
    IF k > Len(H.objs[o].children)
    THEN <<>>
    ELSE PreOrder(H, H.objs[o].children[k].id,
                  Join(prefix, H.objs[o].children[k].name))
             \o PreOrderChildren(H, o, prefix, k + 1)

\* keep the first entry of every id (torch's memo set)
RECURSIVE FirstOfEach(_)
FirstOfEach(seq) ==
    IF seq = <<>>
    THEN <<>>
    ELSE IF \E j \in 1..(Len(seq) - 1) : seq[j].id = seq[Len(seq)].id
    THEN FirstOfEach(SubSeq(seq, 1, Len(seq) - 1))
    ELSE Append(FirstOfEach(SubSeq(seq, 1, Len(seq) - 1)), seq[Len(seq)])

\* nn.Module.named_modules(): (name, module) in pre-order, each module once
NamedModules(H, root) == FirstOfEach(PreOrder(H, root, <<>>))

Names(seq) == [k \in 1..Len(seq) |-> seq[k].name]
Ids(seq) == {seq[k].id : k \in 1..Len(seq)}

\* the parameters a module registers itself, in registration order
OwnParameters(o, prefix) ==
    (IF o.hasWeight /\ o.weight # 0
     THEN <<[name |-> Join(prefix, S_weight), id |-> o.weight]>> ELSE <<>>)
    \o (IF o.hasBias /\ o.bias # 0
        THEN <<[name |-> Join(prefix, S_bias), id |-> o.bias]>> ELSE <<>>)

RECURSIVE ParametersOf(_, _)
ParametersOf(H, mods) ==
    IF mods = <<>>
    THEN <<>>
    ELSE OwnParameters(H.objs[Head(mods).id], Head(mods).name)
             \o ParametersOf(H, Tail(mods))

\* nn.Module.named_parameters(): (name, parameter), each parameter once
NamedParameters(H, root) ==
    FirstOfEach(ParametersOf(H, NamedModules(H, root)))

(***************************************************************************)
(* LoraLayer / Linear: the adapter layer.                                  *)
(***************************************************************************)
\* the sub-modules Linear.__init__ creates, in the order it registers them:
\* nn.Dropout (LoraLayer.__init__, lora_dropout > 0), lora_A, lora_R (under
\* lora_router) and lora_B (under r > 0); lora_B is zeroed by
\* reset_parameters
SubModules(in_features, out_features, kw) ==
    (IF kw.lora_dropout = "pos"
     THEN <<[name |-> S_lora_dropout, type |-> "Dropout", shape |-> <<>>,
             val |-> "none"]>>
     ELSE <<>>)
    \o (IF kw.r > 0
        THEN <<[name |-> S_lora_A, type |-> "Linear",
                shape |-> <<kw.r, in_features \div lora_head>>,
                val |-> "init"]>>
        ELSE <<>>)
    \o (IF kw.r > 0 /\ kw.lora_router
        THEN <<[name |-> S_lora_R, type |-> "Linear",
                shape |-> <<IF kw.lora_router_mixer THEN kw.r * kw.r
                                                    ELSE kw.r,
                            in_features \div lora_head>>,
                val |-> "init"]>>
        ELSE <<>>)
    \o (IF kw.r > 0
        THEN <<[name |-> S_lora_B, type |-> "Linear",
                shape |-> <<out_features \div lora_head, kw.r>>,
                val |-> "zeros"]>>
        ELSE <<>>)

\* the heap with the sub-modules subs allocated after H's objects; the k-th
\* gets object id Len(H.objs) + k, a Linear one a new weight tensor
RECURSIVE AllocSubModules(_, _)
AllocSubModules(H, subs) ==
    IF subs = <<>>
    THEN H
    ELSE AllocSubModules(
             IF Head(subs).type = "Dropout"
             THEN [H EXCEPT !.objs =
                      Append(@, Module("Dropout", FALSE, 0, FALSE, 0, 0, 0,
                                       <<>>))]
             ELSE NNLinear(H, "Linear", Head(subs).shape[2],
                           Head(subs).shape[1], FALSE, Head(subs).val, TRUE,
                           "cpu"),
             Tail(subs))

\* the layer object itself, allocated after its sub-modules
AllocLayer(H, base, subs, in_features, out_features, bias, kw) ==
    [objs |-> Append(H.objs,
          [Module("LoraLinear", TRUE, Len(H.tensors) + 1, TRUE,
                  IF bias THEN Len(H.tensors) + 2 ELSE 0,
                  in_features, out_features,
                  [k \in 1..Len(subs) |->
                      [name |-> subs[k].name, id |-> base + k]])
           EXCEPT !.r = kw.r,
                  !.lora_alpha = kw.lora_alpha,
                  !.scaling = IF kw.r > 0 THEN <<kw.lora_alpha, kw.r>>
                                          ELSE <<>>,
                  !.merged = FALSE,
                  !.merge_weights = kw.merge_weights,
                  !.disable_adapters = FALSE,
                  !.fan_in_fan_out = kw.fan_in_fan_out,
                  !.lora_router = kw.lora_router,
                  !.lora_router_mixer = kw.lora_router_mixer]),
     tensors |-> H.tensors
          \o <<Tensor(\* if fan_in_fan_out: weight.data = weight.data.T
                      IF kw.fan_in_fan_out
                      THEN <<in_features, out_features>>
                      ELSE <<out_features, in_features>>,
                      "init",
                      \* self.weight.requires_grad = False, under r > 0
                      ~(kw.r > 0),
                      "cpu")>>
          \o (IF bias THEN <<Tensor(<<out_features>>, "init", TRUE, "cpu")>>
                      ELSE <<>>)]

\* Linear.__init__ (with LoraLayer.__init__ and reset_parameters).  kw holds
\* the keyword arguments.  Returns [H, exc]: the heap with the new layer as
\* its last object, or the exception the constructor raises.
LinearInit(H, in_features, out_features, bias, kw) ==
    IF kw.lora_dropout = "unset"
    THEN [H |-> H, exc |-> "TypeError"]         \* None > 0.0
    ELSE [H |-> AllocLayer(
                    AllocSubModules(H, SubModules(in_features, out_features,
                                                  kw)),
                    Len(H.objs),
                    SubModules(in_features, out_features, kw),
                    in_features, out_features, bias, kw),
          exc |-> "none"]

(***************************************************************************)
(* Shapes.  A tensor shape is a sequence of sizes; an operation returns    *)
(* the shape of its result, or Bad where torch / einops raise.             *)
(***************************************************************************)
Bad == <<0 - 1>>
Last(s) == s[Len(s)]
Front(s) == SubSeq(s, 1, Len(s) - 1)

\* F.linear(x, W, bias) for W of shape (o, k) and bias of shape (o,) or None
FLinear(x, W, b) ==
    IF x = Bad \/ Len(x) = 0 \/ Len(W) # 2 THEN Bad
    ELSE IF Last(x) # W[2] THEN Bad
    ELSE IF b # <<>> /\ b # <<W[1]>> THEN Bad
    ELSE Front(x) \o <<W[1]>>

\* rearrange(x, 'b s (h d) -> (b h) s d') and rearrange(x, 'b (h d) -> (b h) d')
SplitHeads(x, three) ==
    IF three
    THEN IF Len(x) = 3 /\ x[3] % lora_head = 0
         THEN <<x[1] * lora_head, x[2], x[3] \div lora_head>> ELSE Bad
    ELSE IF Len(x) = 2 /\ x[2] % lora_head = 0
         THEN <<x[1] * lora_head, x[2] \div lora_head>> ELSE Bad

\* rearrange(y, '(b h) s d -> b s (h d)') and rearrange(y, '(b h) d -> b (h d)')
MergeHeads(y, three) ==
    IF y = Bad THEN Bad
    ELSE IF three
    THEN IF Len(y) = 3 /\ y[1] % lora_head = 0
         THEN <<y[1] \div lora_head, y[2], y[3] * lora_head>> ELSE Bad
    ELSE IF Len(y) = 2 /\ y[1] % lora_head = 0
         THEN <<y[1] \div lora_head, y[2] * lora_head>> ELSE Bad

\* torch.einsum('bnr, bnrk->bnk', left, router)
Einsum(left, router) ==
    IF /\ Len(left) = 3
       /\ Len(router) = 4
       /\ \A k \in 1..3 : left[k] = router[k]
    THEN <<router[1], router[2], router[4]>>
    ELSE Bad

\* utils.transpose(weight, fan_in_fan_out): weight.T if fan_in_fan_out
transpose(W, fan_in_fan_out) ==
    IF fan_in_fan_out /\ Len(W) = 2 THEN <<W[2], W[1]>> ELSE W

Raised(exc) == [status |-> exc, shape |-> <<>>, paths |-> {}]
Returned(shape, paths) == [status |-> "ok", shape |-> shape, paths |-> paths]

\* the shape of the weight of the sub-module called name
SubWeight(H, o, name) == H.tensors[H.objs[Child(H, o, name)].weight].shape

\* lines 406-413: the gate built from the router output
RouterGate(m, router) ==
    IF router = Bad THEN Bad
    ELSE IF ~m.lora_router THEN router
    ELSE IF ~m.lora_router_mixer
    THEN router \o <<Last(router)>>                     \* diag_embed
    ELSE IF Last(router) = m.r * m.r
         THEN Front(router) \o <<m.r, m.r>>             \* reshape
         ELSE Bad

\* lines 427-433: the frozen path, the sum and the return
ForwardSum(H, o, x, lora_result, org_result) ==
    IF lora_result = Bad \/ org_result = Bad THEN Raised("RuntimeError")
    \* lora_result + org_result: where the shapes differ they differ in the
    \* last size, and by more than broadcasting allows
    ELSE IF lora_result # org_result THEN Raised("RuntimeError")
    ELSE Returned(org_result, {"lora", "base"})

\* lines 415-425: the contraction, lora_B and the reshape back
ForwardMoe(H, o, x, left_result, gate) ==
    IF gate = Bad THEN Raised("RuntimeError")
    ELSE IF Len(gate) = 3 THEN Raised("AttributeError")     \* torch.enisum
    ELSE IF Einsum(left_result, gate) = Bad THEN Raised("RuntimeError")
    ELSE ForwardSum(H, o, x,
             MergeHeads(FLinear(Einsum(left_result, gate),
                                SubWeight(H, o, S_lora_B), <<>>),
                        Len(x) = 3),
             FLinear(x,
                     transpose(H.tensors[H.objs[o].weight].shape,
                               H.objs[o].fan_in_fan_out),
                     IF H.objs[o].bias = 0
                     THEN <<>> ELSE H.tensors[H.objs[o].bias].shape))

\* lines 404-413: lora_A, lora_R and the gate
ForwardRouter(H, o, x, dropout_x) ==
    IF dropout_x = Bad THEN Raised("EinopsError")
    ELSE IF FLinear(dropout_x, SubWeight(H, o, S_lora_A), <<>>) = Bad
    THEN Raised("RuntimeError")
    ELSE IF ~HasChild(H, o, S_lora_R)                       \* self.lora_R
    THEN Raised("AttributeError")
    ELSE ForwardMoe(H, o, x,
             FLinear(dropout_x, SubWeight(H, o, S_lora_A), <<>>),
             RouterGate(H.objs[o],
                        FLinear(dropout_x, SubWeight(H, o, S_lora_R), <<>>)))

\* Linear.forward(x) for an input of shape x: what it returns or raises
LinearForward(H, o, x) ==
    IF H.objs[o].disable_adapters THEN Raised("NotImplementedError")
    ELSE IF ~HasChild(H, o, S_lora_A)           \* self.lora_A.weight.dtype
    THEN Raised("AttributeError")
    ELSE ForwardRouter(H, o, x, SplitHeads(x, Len(x) = 3))

\* nn.Module.train(mode) of torch: the flag of the module and of every
\* module below it
NNTrain(H, o, mode) ==
    [H EXCEPT !.objs = [i \in DOMAIN H.objs |->
        IF i \in Ids(PreOrder(H, o, <<>>))
        THEN [H.objs[i] EXCEPT !.training = mode] ELSE H.objs[i]]]

\* lines 371-378: what follows nn.Linear.train(self, mode)
TrainSubModules(H, o, mode) ==
    IF ~HasChild(H, o, S_lora_A)               \* self.lora_A.train(mode)
    THEN [H |-> H, exc |-> "AttributeError"]
    ELSE IF H.objs[o].lora_router /\ ~HasChild(H, o, S_lora_R)
    THEN [H |-> H, exc |-> "AttributeError"]
    ELSE [H |-> [H EXCEPT !.objs[o].merged = FALSE], exc |-> "none"]

\* Linear.train(mode): returns [H, exc]
LinearTrain(H, o, mode) == TrainSubModules(NNTrain(H, o, mode), o, mode)

\* Linear.eval(): nn.Linear.eval(self) is nn.Module.eval, which returns
\* self.train(False), and self is the adapter layer: Linear.train runs; the
\* eval() calls on the sub-modules that follow change nothing more
LinearEval(H, o) == LinearTrain(H, o, FALSE)

\* _set_adapter_layers with the flag mistaken for its opposite:
\* module.disable_adapters = enabled
SetAdapterLayersInverted(H, root, enabled) ==
    [H EXCEPT !.objs = [o \in DOMAIN H.objs |->
        IF o \in Ids(NamedModules(H, root)) /\ IsLoraLayer(H.objs[o])
        THEN [H.objs[o] EXCEPT !.disable_adapters = enabled]
        ELSE H.objs[o]]]

\* LoraModel._set_adapter_layers(enabled)
SetAdapterLayers(H, root, enabled) ==
    [H EXCEPT !.objs = [o \in DOMAIN H.objs |->
        IF o \in Ids(NamedModules(H, root)) /\ IsLoraLayer(H.objs[o])
        THEN [H.objs[o] EXCEPT !.disable_adapters =
                                   IF enabled THEN FALSE ELSE TRUE]
        ELSE H.objs[o]]]

(***************************************************************************)
(* The Matcher/Replacer.                                                   *)
(***************************************************************************)
\* setattr(parent_module, child_name, new_module): nn.Module.__setattr__
\* stores a module under its name in _modules, at the place the name had
SetChild(H, parent, child_name, new) ==
    [H EXCEPT !.objs[parent].children =
        IF \E k \in 1..Len(@) : @[k].name = child_name
        THEN [k \in 1..Len(@) |->
                 IF @[k].name = child_name
                 THEN [name |-> child_name, id |-> new] ELSE @[k]]
        ELSE Append(@, [name |-> child_name, id |-> new])]

\* the parameters with an id in ids are moved to device
MoveTensors(H, ids, device) ==
    [H EXCEPT !.tensors = [t \in DOMAIN H.tensors |->
        IF t \in ids THEN [H.tensors[t] EXCEPT !.device = device]
                     ELSE H.tensors[t]]]

\* module.to(device): every parameter of the module and of the modules below
ModuleTo(H, o, device) == MoveTensors(H, Ids(NamedParameters(H, o)), device)

\* lines 219-221: the modules of new_module whose name holds "lora_"
RECURSIVE DispatchLora(_, _, _)
DispatchLora(H, mods, device) ==
    IF mods = <<>>
    THEN H
    ELSE DispatchLora(IF Contains(Head(mods).name, S_lora_)
                      THEN ModuleTo(H, Head(mods).id, device) ELSE H,
                      Tail(mods), device)

\* lines 211-213: weight and bias of the old module, by reference
Transplant(H, new, old) ==
    [H EXCEPT !.objs[new].weight = H.objs[old].weight,
              !.objs[new].hasWeight = TRUE,
              !.objs[new].bias = IF H.objs[old].bias # 0
                                 THEN H.objs[old].bias ELSE @,
              !.objs[new].hasBias = TRUE]

\* lines 214-216: the state of an 8-bit module
TransplantState(H, new, old) ==
    IF H.objs[old].state
    THEN ModuleTo([H EXCEPT !.objs[new].state = TRUE], new,
                  H.tensors[H.objs[old].weight].device)
    ELSE H

\* LoraModel._replace_module(parent_module, child_name, new_module, old_module)
ReplaceModule(H, parent, child_name, new, old) ==
    DispatchLora(
        TransplantState(
            Transplant(SetChild(H, parent, child_name, new), new, old),
            new, old),
        NamedModules(H, new),
        H.tensors[H.objs[old].weight].device)

(***************************************************************************)
(* The Trainable-Mask Controller.                                          *)
(***************************************************************************)
\* requires_grad = flag for the parameters with an id in ids
SetRequiresGrad(H, ids, flag) ==
    [H EXCEPT !.tensors = [t \in DOMAIN H.tensors |->
        IF t \in ids THEN [H.tensors[t] EXCEPT !.requires_grad = flag]
                     ELSE H.tensors[t]]]

\* the parameters of ps whose name holds / does not hold marker
Named(ps, marker, holds) ==
    {ps[k].id : k \in {j \in 1..Len(ps) :
                           Contains(ps[j].name, marker) = holds}}

\* the freeze without its test on the name: every parameter is frozen
FreezeEvery(H, root) ==
    SetRequiresGrad(H, Ids(NamedParameters(H, root)), FALSE)

\* lines 264-266: p.requires_grad = False unless "lora_" is in the name
FreezeNonLora(H, root) ==
    SetRequiresGrad(H, Named(NamedParameters(H, root), S_lora_, FALSE), FALSE)

\* lines 270-272: p.requires_grad = True where "bias" is in the name
UnfreezeBiasAll(H, root) ==
    SetRequiresGrad(H, Named(NamedParameters(H, root), S_bias, TRUE), TRUE)

\* lines 274-276: the bias of every LoraLayer that has one
UnfreezeBiasLoraOnly(H, root) ==
    SetRequiresGrad(H,
        {H.objs[o].bias : o \in {i \in Ids(NamedModules(H, root)) :
                                     /\ IsLoraLayer(H.objs[i])
                                     /\ H.objs[i].hasBias
                                     /\ H.objs[i].bias # 0}},
        TRUE)

\* lines 267-278: the bias modes, after the freeze
UnfreezeBias(H, root, bias) ==
    IF bias = "none" THEN [H |-> H, exc |-> "none"]
    ELSE IF bias = "all"
    THEN [H |-> UnfreezeBiasAll(H, root), exc |-> "none"]
    ELSE IF bias = "lora_only"
    THEN [H |-> UnfreezeBiasLoraOnly(H, root), exc |-> "none"]
    ELSE [H |-> H, exc |-> "NotImplementedError"]

\* mark_only_lora_as_trainable(model, bias): returns [H, exc]
MarkOnlyLoraAsTrainable(H, root, bias) ==
    UnfreezeBias(FreezeNonLora(H, root), root, bias)

(***************************************************************************)
(* Host networks.  The root holds NumBlocks blocks "0", "1", ...; block i  *)
(* holds a module "q" of the chosen kind and a dense layer "v" with a bias;*)
(* beside the blocks the root holds "xbias", a dense layer without bias    *)
(* whose weight is therefore named "xbias.weight".                         *)
(***************************************************************************)
EmptyHeap == [objs |-> <<>>, tensors |-> <<>>]

QKinds == {"Linear", "LinearNoBias", "Conv1D", "Linear8bitLt", "LoraLinear"}

\* the keyword arguments an adapter layer already present in the host was
\* built with
HostKw ==
    [r |-> MaxRank, lora_alpha |-> 2 * MaxRank, lora_dropout |-> "zero",
     fan_in_fan_out |-> FALSE, merge_weights |-> FALSE, lora_router |-> TRUE,
     lora_router_mixer |-> FALSE, enable_lora |-> FALSE]

QIn(i) == lora_head * (i + 1)
QOut == 2 * lora_head

\* bnb.nn.Linear8bitLt carries a state attribute
WithState(H) == [H EXCEPT !.objs[LastObj(H)].state = TRUE]

\* the module "q" of block i
QLeaf(H, kind, i) ==
    IF kind = "LoraLinear"
    THEN LinearInit(H, QIn(i), QOut, TRUE, HostKw).H
    ELSE IF kind = "Conv1D"
    THEN Conv1D(H, QIn(i), QOut, "init", TRUE, "cpu")
    ELSE IF kind = "Linear8bitLt"
    THEN WithState(NNLinear(H, kind, QIn(i), QOut, TRUE, "init", TRUE, "cpu"))
    ELSE NNLinear(H, "Linear", QIn(i), QOut, kind = "Linear", "init", TRUE,
                  "cpu")

\* block i around its module "q", the last object of Hq
BlockOf(Hv, q) ==
    NNContainer(Hv, <<[name |-> S_q, id |-> q],
                      [name |-> S_v, id |-> LastObj(Hv)]>>)
Block(Hq) ==
    BlockOf(NNLinear(Hq, "Linear", QOut, lora_head, TRUE, "init", TRUE,
                     "cpu"),
            LastObj(Hq))

\* the blocks i, i + 1, ...; returns [H, children]
RECURSIVE BuildBlocks(_, _, _, _)
RECURSIVE BuildNext(_, _, _, _)
BuildBlocks(H, kinds, i, children) ==
    IF i >= NumBlocks
    THEN [H |-> H, children |-> children]
    ELSE BuildNext(Block(QLeaf(H, kinds[i], i)), kinds, i, children)
BuildNext(Hb, kinds, i, children) ==
    BuildBlocks(Hb, kinds, i + 1,
                Append(children, [name |-> BlockName(i), id |-> LastObj(Hb)]))

\* the root around the blocks and "xbias", the last object of Hx
RootOf(Hx, children) ==
    NNContainer(Hx, Append(children, [name |-> S_xbias, id |-> LastObj(Hx)]))

\* every parameter holds pretrained values, lies on device and has the
\* trainable flag rg
Pretrained(H, rg, device) ==
    [H EXCEPT !.tensors = [t \in DOMAIN H.tensors |->
        Tensor(H.tensors[t].shape, "pretrained", rg, device)]]

HostOf(bs, rg, device) ==
    Pretrained(RootOf(NNLinear(bs.H, "Linear", lora_head, lora_head, FALSE,
                               "init", TRUE, "cpu"),
                      bs.children),
               rg, device)

\* a pretrained host, its root being the last object
HostNetwork(kinds, rg, device) ==
    HostOf(BuildBlocks(EmptyHeap, kinds, 0, <<>>), rg, device)

\* target selectors
SelQ == ListSelector(<<S_q>>)                       \* ["q"]
SelQV == ListSelector(<<S_q, S_v>>)                 \* ["q", "v"]
SelV == ListSelector(<<S_v>>)                       \* ["v"]
SelZ == ListSelector(<<S_z>>)                       \* ["z"]: no module
SelNone == ListSelector(<<>>)                       \* []: no module
SelReQ == StrSelector(<<AnyStar, Lit("q")>>)        \* ".*q"
SelReBareQ == StrSelector(<<Lit("q")>>)             \* "q": no module
SelReAll == StrSelector(<<AnyStar>>)                \* ".*": every module

NoCall ==
    [op |-> "none", layer |-> 0, mode |-> FALSE, x |-> <<>>,
     status |-> "none", shape |-> <<>>, paths |-> {}]

NoKwargs ==
    [r |-> 0, lora_alpha |-> 0, lora_dropout |-> "unset",
     fan_in_fan_out |-> FALSE, merge_weights |-> FALSE, lora_router |-> FALSE,
     lora_router_mixer |-> FALSE, enable_lora |-> FALSE]

\* The state when LoraModel(config, model) is entered with the host H.
Entered(H, c, e) ==
    /\ objs = H.objs
    /\ tensors = H.tensors
    /\ config = c
    /\ env = [e EXCEPT !.model = LastObj(H)]
    /\ kwargs = NoKwargs
    /\ key_list = <<>>
    /\ idx = 0
    /\ found = FALSE
    /\ new_module = 0
    /\ warned = FALSE
    /\ pc = "init"
    /\ error = "none"
    /\ last = NoCall
    /\ orig = [objs |-> H.objs, tensors |-> H.tensors, config |-> c]

InitFrom(Kinds, Flags, Configs, Envs) ==
    \E kinds \in [0..(NumBlocks - 1) -> Kinds], rg \in Flags,
       c \in Configs, e \in Envs :
        \* bnb.nn.Linear8bitLt exists only where bitsandbytes is installed
        /\ (\E i \in DOMAIN kinds : kinds[i] = "Linear8bitLt")
               => e.bnb_available
        /\ Entered(HostNetwork(kinds, rg, "cuda"), c, e)

Heap == [objs |-> objs, tensors |-> tensors]

Raise(exc) ==
    /\ pc' = "raised"
    /\ error' = exc

(***************************************************************************)
(* LoraModel.__init__, in steps.                                           *)
(***************************************************************************)
\* lines 126-154: up to the for loop
Start ==
    /\ pc = "init"
    /\ IF env.loaded_in_8bit /\ ~env.bnb_available
       THEN /\ Raise("ImportError")
            /\ UNCHANGED <<kwargs, key_list, idx>>
       ELSE /\ kwargs' =
                [r |-> config.r, lora_alpha |-> config.lora_alpha,
                 lora_dropout |-> config.lora_dropout,
                 fan_in_fan_out |-> config.fan_in_fan_out,
                 merge_weights |->
                     (config.merge_weights \/ config.inference_mode)
                         /\ ~env.hf_device_map,
                 lora_router |-> config.lora_router,
                 lora_router_mixer |-> config.lora_router_mixer,
                 enable_lora |-> FALSE]
            /\ key_list' = Names(NamedModules(Heap, env.model))
            /\ idx' = 1
            /\ pc' = "loop"
            /\ UNCHANGED error
    /\ UNCHANGED <<objs, tensors, config, env, found, new_module, warned,
                   last, orig>>

\* what an iteration leaves: the heap, kwargs, peft_config.fan_in_fan_out,
\* new_module, whether a warning was given, the exception raised
Leaves(H, kw, fan_in_fan_out, nm, warn, exc) ==
    [H |-> H, kwargs |-> kw, fan_in_fan_out |-> fan_in_fan_out,
     new_module |-> nm, warn |-> warn, exc |-> exc]

\* lines 180 and 196: the new layer, once constructed, replaces the target
Installed(made, c, kw, nm, parent, target_name, target) ==
    IF made.exc # "none"
    THEN Leaves(made.H, kw, c.fan_in_fan_out, nm, FALSE, made.exc)
    ELSE Leaves(ReplaceModule(made.H, parent, target_name, LastObj(made.H),
                              target),
                kw, c.fan_in_fan_out, LastObj(made.H), FALSE, "none")

\* lines 181-195: the flag is corrected for a target that is no Conv1D, then
\* MergedLinear(...) raises
Merged(H, c, kw, nm, coerce) ==
    Leaves(H,
           [kw EXCEPT !.enable_lora = TRUE,
                      !.fan_in_fan_out = IF coerce THEN FALSE ELSE @],
           IF coerce THEN FALSE ELSE c.fan_in_fan_out,
           nm, coerce, "NotImplementedError")

\* lines 164-196: the branches, for the target t
Branches(H, c, e, kw, nm, parent, target_name, target, t) ==
    IF ~t.hasBias                                   \* target.bias
    THEN Leaves(H, kw, c.fan_in_fan_out, nm, FALSE, "AttributeError")
    ELSE IF e.loaded_in_8bit /\ t.type = "Linear8bitLt"
    THEN \* Linear8bitLt(...) and MergedLinear8bitLt(...) both raise
         Leaves(H, [kw EXCEPT !.enable_lora = c.enable_lora],
                c.fan_in_fan_out, nm, FALSE, "NotImplementedError")
    ELSE IF IsNNLinear(t) /\ ~c.enable_lora
    THEN Installed(LinearInit(H, t.in_features, t.out_features, t.bias # 0,
                              kw),
                   c, kw, nm, parent, target_name, target)
    ELSE IF c.enable_lora
    THEN Merged(H, c, kw, nm, t.type # "Conv1D" /\ kw.fan_in_fan_out)
    ELSE \* no branch binds new_module: it is what the last target left
         IF nm = 0
         THEN Leaves(H, kw, c.fan_in_fan_out, nm, FALSE, "UnboundLocalError")
         ELSE Leaves(ReplaceModule(H, parent, target_name, nm, target),
                     kw, c.fan_in_fan_out, nm, FALSE, "none")

\* lines 163 and 203-207: _get_submodules, then the branches
Located(H, c, e, kw, nm, parent, target_name, target) ==
    IF parent = 0 \/ target = 0
    THEN Leaves(H, kw, c.fan_in_fan_out, nm, FALSE, "AttributeError")
    ELSE Branches(H, c, e, kw, nm, parent, target_name, target,
                  H.objs[target])

\* lines 163-196: the body of the loop for a key that is a target
VisitTarget(H, root, c, e, kw, nm, key) ==
    Located(H, c, e, kw, nm, GetSubmodule(H, root, ParentKey(key)),
            TargetName(key), GetSubmodule(H, root, key))

\* the locals and the heap after an iteration that left v
Visited(v) ==
    /\ found' = TRUE
    /\ objs' = v.H.objs
    /\ tensors' = v.H.tensors
    /\ kwargs' = v.kwargs
    /\ config' = [config EXCEPT !.fan_in_fan_out = v.fan_in_fan_out]
    /\ new_module' = v.new_module
    /\ warned' = (warned \/ v.warn)
    /\ IF v.exc # "none"
       THEN Raise(v.exc) /\ UNCHANGED idx
       ELSE idx' = idx + 1 /\ UNCHANGED <<pc, error>>

\* lines 155-196: one iteration of the for loop
Visit ==
    /\ pc = "loop"
    /\ idx <= Len(key_list)
    /\ IF ~TargetModuleFound(config.target_modules, key_list[idx])
       THEN /\ idx' = idx + 1
            /\ UNCHANGED <<objs, tensors, config, kwargs, found, new_module,
                           warned, pc, error>>
       ELSE Visited(VisitTarget(Heap, env.model, config, env, kwargs,
                                new_module, key_list[idx]))
    /\ UNCHANGED <<env, key_list, last, orig>>

\* line 130: the mask m has been applied
Masked(m) ==
    /\ tensors' = m.H.tensors
    /\ IF m.exc # "none"
       THEN Raise(m.exc)
       ELSE pc' = "ready" /\ UNCHANGED error

\* __init__ with the mask applied before the check that a target was found
FinishMaskFirst ==
    /\ pc = "loop"
    /\ idx > Len(key_list)
    /\ IF ~found
       THEN /\ Raise("ValueError")
            /\ tensors' = MarkOnlyLoraAsTrainable(Heap, env.model,
                                                  config.bias).H.tensors
       ELSE Masked(MarkOnlyLoraAsTrainable(Heap, env.model, config.bias))
    /\ UNCHANGED <<objs, config, env, kwargs, key_list, idx, found,
                   new_module, warned, last, orig>>

\* lines 197-201 and 130-131: after the loop
Finish ==
    /\ pc = "loop"
    /\ idx > Len(key_list)
    /\ IF ~found
       THEN /\ Raise("ValueError")
            /\ UNCHANGED tensors
       ELSE Masked(MarkOnlyLoraAsTrainable(Heap, env.model, config.bias))
    /\ UNCHANGED <<objs, config, env, kwargs, key_list, idx, found,
                   new_module, warned, last, orig>>

(***************************************************************************)
(* The runtime interface of the adapted network.                           *)
(***************************************************************************)
\* the adapter layers of the network
LoraLayers ==
    {o \in Ids(NamedModules(Heap, env.model)) : IsLoraLayer(objs[o])}

\* inputs of shape (batch, features) and (batch, sequence, features)
Inputs(features) ==
    {<<b, features>> : b \in 1..MaxBatch}
        \cup {<<b, n, features>> : b \in 1..MaxBatch, n \in 1..MaxSeq}

Called(op, o, mode, x, res) ==
    [op |-> op, layer |-> o, mode |-> mode, x |-> x, status |-> res.status,
     shape |-> res.shape, paths |-> res.paths]

\* layer(x): Linear.forward
Forward(o, x) ==
    /\ pc = "ready"
    /\ last' = Called("forward", o, FALSE, x, LinearForward(Heap, o, x))
    /\ UNCHANGED <<objs, tensors, config, env, kwargs, key_list, idx, found,
                   new_module, warned, pc, error, orig>>

ModeSet(op, o, mode, res) ==
    /\ objs' = res.H.objs
    /\ last' = Called(op, o, mode, <<>>, Raised(res.exc))

\* layer.train(mode)
Train(o, mode) ==
    /\ pc = "ready"
    /\ ModeSet("train", o, mode, LinearTrain(Heap, o, mode))
    /\ UNCHANGED <<tensors, config, env, kwargs, key_list, idx, found,
                   new_module, warned, pc, error, orig>>

\* layer.eval()
Eval(o) ==
    /\ pc = "ready"
    /\ ModeSet("eval", o, FALSE, LinearEval(Heap, o))
    /\ UNCHANGED <<tensors, config, env, kwargs, key_list, idx, found,
                   new_module, warned, pc, error, orig>>

\* LoraModel.enable_adapter_layers()
EnableAdapterLayers ==
    /\ pc = "ready"
    /\ objs' = SetAdapterLayers(Heap, env.model, TRUE).objs
    /\ last' = [NoCall EXCEPT !.op = "enable"]
    /\ UNCHANGED <<tensors, config, env, kwargs, key_list, idx, found,
                   new_module, warned, pc, error, orig>>

\* LoraModel.disable_adapter_layers()
DisableAdapterLayers ==
    /\ pc = "ready"
    /\ objs' = SetAdapterLayers(Heap, env.model, FALSE).objs
    /\ last' = [NoCall EXCEPT !.op = "disable"]
    /\ UNCHANGED <<tensors, config, env, kwargs, key_list, idx, found,
                   new_module, warned, pc, error, orig>>

ForwardAny ==
    \E o \in LoraLayers : \E x \in Inputs(objs[o].in_features) : Forward(o, x)
TrainAny == \E o \in LoraLayers, mode \in BOOLEAN : Train(o, mode)
EvalAny == \E o \in LoraLayers : Eval(o)

(***************************************************************************)
(* Specifications.                                                         *)
(***************************************************************************)
AllSelectors == {SelQ, SelQV, SelZ, SelNone, SelReQ, SelReBareQ, SelReAll}

\* Spec: adaptation of every kind of host under every selector
ConfigsAdapt ==
    [r : {MaxRank}, lora_alpha : {2 * MaxRank},
     lora_dropout : {"zero", "unset"},
     fan_in_fan_out : BOOLEAN, merge_weights : {FALSE},
     inference_mode : {FALSE}, enable_lora : BOOLEAN,
     lora_router : {TRUE}, lora_router_mixer : {FALSE},
     bias : {"none"}, target_modules : AllSelectors]

EnvsAdapt ==
    [loaded_in_8bit : BOOLEAN, bnb_available : BOOLEAN,
     hf_device_map : {FALSE}, model : {0}]

Init == InitFrom(QKinds, {TRUE}, ConfigsAdapt, EnvsAdapt)

NextAdapt == Start \/ Visit \/ Finish

Spec == Init /\ [][NextAdapt]_vars

\* SpecMask: the trainable mask under every bias mode and prior flags
ConfigsMask ==
    [r : {0, MaxRank}, lora_alpha : {2 * MaxRank}, lora_dropout : {"zero"},
     fan_in_fan_out : {FALSE}, merge_weights : {FALSE},
     inference_mode : {FALSE}, enable_lora : {FALSE},
     lora_router : BOOLEAN, lora_router_mixer : {FALSE},
     bias : {"none", "all", "lora_only", "lora"},
     target_modules : {SelQ, SelQV, SelV}]

EnvsPlain ==
    [loaded_in_8bit : {FALSE}, bnb_available : {FALSE},
     hf_device_map : BOOLEAN, model : {0}]

InitMask ==
    InitFrom({"Linear", "LinearNoBias", "LoraLinear"}, BOOLEAN, ConfigsMask,
             EnvsPlain)

SpecMask == InitMask /\ [][NextAdapt]_vars

\* SpecRun: the adapted network in use
ConfigsRun ==
    [r : {0, MaxRank}, lora_alpha : {2 * MaxRank},
     lora_dropout : {"zero", "pos"},
     fan_in_fan_out : {FALSE}, merge_weights : BOOLEAN,
     inference_mode : {FALSE}, enable_lora : {FALSE},
     lora_router : BOOLEAN, lora_router_mixer : BOOLEAN,
     bias : {"none"}, target_modules : {SelQ}]

EnvsRun ==
    [loaded_in_8bit : {FALSE}, bnb_available : {FALSE},
     hf_device_map : {FALSE}, model : {0}]

InitRun == InitFrom({"Linear"}, {TRUE}, ConfigsRun, EnvsRun)

Next ==
    \/ Start
    \/ Visit
    \/ Finish
    \/ ForwardAny
    \/ TrainAny
    \/ EvalAny
    \/ EnableAdapterLayers
    \/ DisableAdapterLayers

SpecRun == InitRun /\ [][Next]_vars

(***************************************************************************)
(* Properties.                                                             *)
(***************************************************************************)
\* the dotted names of the host network as it was received
HostKeys == Names(NamedModules(orig, env.model))

Matched(key) == TargetModuleFound(orig.config.target_modules, key)

NoMatch == \A i \in 1..Len(HostKeys) : ~Matched(HostKeys[i])

Unmutated == objs = orig.objs /\ tensors = orig.tensors

Done == pc \in {"ready", "raised"}

\* the module at the dotted name key, now and in the received host
Now(key) == GetSubmodule(Heap, env.model, key)
Was(key) == GetSubmodule(orig, env.model, key)

\* C1 as claimed: a selector that matches no module name makes the
\* construction fail with the configuration error (ValueError), the host
\* network being left as it was.
C1_Original ==
    (NoMatch /\ Done) => (pc = "raised" /\ error = "ValueError" /\ Unmutated)

\* C1: under a selector that matches no module name the host network is
\* never mutated, and the construction ends in an error: the missing-dependency
\* error (ImportError) where the network is marked as loaded in 8 bit and
\* bitsandbytes is not installed, the configuration error (ValueError)
\* otherwise.
C1_NoMatchFails ==
    NoMatch =>
        /\ Unmutated
        /\ pc # "ready"
        /\ pc = "raised" =>
               error = IF env.loaded_in_8bit /\ ~env.bnb_available
                       THEN "ImportError" ELSE "ValueError"

\* a selector matched nothing, the ValueError was raised after the whole
\* traversal, and the host holds trainable parameters that are still so
C1_Witness ==
    /\ NoMatch
    /\ pc = "raised"
    /\ error = "ValueError"
    /\ idx > Len(key_list)
    /\ Len(key_list) > NumBlocks
    /\ \E t \in DOMAIN tensors : tensors[t].requires_grad

\* C2 as claimed: once the construction has completed, every module whose
\* name matches the selector has been replaced by a newly constructed adapter
\* layer, a different one for every matched name, with the in_features,
\* out_features and presence of bias of the module it replaces, whatever the
\* types of the matched modules and their order.
C2_Original ==
    pc = "ready" =>
        \A i \in 1..Len(HostKeys) :
            Matched(HostKeys[i]) =>
                /\ Now(HostKeys[i]) > Len(orig.objs)
                /\ IsLoraLayer(objs[Now(HostKeys[i])])
                /\ objs[Now(HostKeys[i])].in_features
                       = orig.objs[Was(HostKeys[i])].in_features
                /\ objs[Now(HostKeys[i])].out_features
                       = orig.objs[Was(HostKeys[i])].out_features
                /\ (objs[Now(HostKeys[i])].bias # 0)
                       = (orig.objs[Was(HostKeys[i])].bias # 0)
                /\ \A j \in 1..Len(HostKeys) :
                       (Matched(HostKeys[j]) /\ i # j)
                           => Now(HostKeys[i]) # Now(HostKeys[j])

\* C3 as claimed: forward on an enabled layer of rank 0 succeeds and its
\* output is the frozen base path alone.
C3_Original ==
    (/\ last.op = "forward"
     /\ objs[last.layer].r = 0
     /\ ~objs[last.layer].disable_adapters)
        => (last.status = "ok" /\ last.paths = {"base"})

\* C4 as claimed: a layer starts unmerged; on a layer constructed with
\* merge_weights = true, merged is true after eval() and false after
\* train(True).
C4_Original ==
    /\ pc = "ready" /\ last.op = "none"
           => \A o \in LoraLayers : ~objs[o].merged
    /\ (/\ last.op = "eval" \/ (last.op = "train" /\ last.mode)
        /\ last.status = "none"
        /\ objs[last.layer].merge_weights)
           => (objs[last.layer].merged <=> last.op = "eval")

\* C5 as claimed, for the layers built with the router (the configuration the
\* claim names): on an enabled layer of rank r > 0 whose in_features and
\* out_features are multiples of 4, forward on an input of shape
\* (batch, features) or (batch, sequence, features) succeeds and returns the
\* leading sizes of the input followed by out_features.
C5_Original ==
    (/\ last.op = "forward"
     /\ objs[last.layer].r > 0
     /\ objs[last.layer].lora_router
     /\ ~objs[last.layer].disable_adapters
     /\ objs[last.layer].in_features % lora_head = 0
     /\ objs[last.layer].out_features % lora_head = 0
     /\ Len(last.x) \in {2, 3})
        => /\ last.status = "ok"
           /\ last.shape = Front(last.x) \o <<objs[last.layer].out_features>>

AllDisabled == \A o \in LoraLayers : objs[o].disable_adapters
AllEnabled == \A o \in LoraLayers : ~objs[o].disable_adapters

\* C6: disable_adapter_layers() sets the flag on every adapter layer and
\* enable_adapter_layers() clears it on every one; in every state in which a
\* layer's flag is set, forward on it raises NotImplementedError and returns
\* no output, and with the flag clear forward does not raise that error;
\* applying a toggle again right after it has been applied changes nothing.
C6_DisableRejectsForward ==
    /\ last.op = "disable" => AllDisabled
    /\ last.op = "enable" => AllEnabled
    /\ last.op = "forward" =>
           IF objs[last.layer].disable_adapters
           THEN last.status = "NotImplementedError" /\ last.paths = {}
           ELSE last.status # "NotImplementedError"
    /\ last.op = "disable" => SetAdapterLayers(Heap, env.model, FALSE) = Heap
    /\ last.op = "enable" => SetAdapterLayers(Heap, env.model, TRUE) = Heap

\* a forward on a disabled layer was rejected, on a network that holds more
\* than one adapter layer
C6_Witness ==
    /\ last.op = "forward"
    /\ last.status = "NotImplementedError"
    /\ AllDisabled
    /\ Cardinality(LoraLayers) > 1

AdapterNamed(p) == Contains(p.name, S_lora_)

\* the parameters of the adapted network, as named_parameters lists them
Params == NamedParameters(Heap, env.model)

\* C7 as claimed: after the pass with bias "none" a parameter is trainable
\* if and only if its name marks it as an adapter parameter.
C7_Original ==
    (pc = "ready" /\ config.bias = "none") =>
        \A k \in 1..Len(Params) :
            tensors[Params[k].id].requires_grad <=> AdapterNamed(Params[k])

\* C7: after the pass with bias "none" every parameter whose name does not
\* mark it as an adapter parameter is frozen, and every adapter-named
\* parameter has the flag it had before: true for those the Matcher has just
\* constructed, the flag it came with for those the host already held.
C7_FreezeOnly ==
    (pc = "ready" /\ config.bias = "none") =>
        \A k \in 1..Len(Params) :
            tensors[Params[k].id].requires_grad
                <=> /\ AdapterNamed(Params[k])
                    /\ \/ Params[k].id > Len(orig.tensors)
                       \/ orig.tensors[Params[k].id].requires_grad

\* the pass has run with bias "none" over a network with base parameters,
\* and has left one adapter-named parameter trainable (a new one) and
\* another one frozen (one the host came with)
C7_Witness ==
    /\ pc = "ready"
    /\ config.bias = "none"
    /\ \E k \in 1..Len(Params) :
           /\ ~AdapterNamed(Params[k])
           /\ ~tensors[Params[k].id].requires_grad
    /\ \E k \in 1..Len(Params) :
           AdapterNamed(Params[k]) /\ tensors[Params[k].id].requires_grad
    /\ \E k \in 1..Len(Params) :
           AdapterNamed(Params[k]) /\ ~tensors[Params[k].id].requires_grad

\* the parameter is the bias of a module of the network
IsBias(p) == \E o \in Ids(NamedModules(Heap, env.model)) : objs[o].bias = p.id

\* C8 as claimed: after the pass with bias "all" every bias parameter of the
\* network is trainable and every parameter that is neither a bias nor an
\* adapter parameter is frozen, whatever the names of the host's modules.
C8_Original ==
    (pc = "ready" /\ config.bias = "all") =>
        \A k \in 1..Len(Params) :
            /\ IsBias(Params[k]) => tensors[Params[k].id].requires_grad
            /\ (~IsBias(Params[k]) /\ ~AdapterNamed(Params[k]))
                   => ~tensors[Params[k].id].requires_grad

\* C9 as claimed: once the fan_in_fan_out flag has been forced to false with
\* a warning, adaptation goes on and does not fail.
C9_Original == warned => pc # "raised"

\* C10 as claimed: once the construction has completed, the layer at every
\* matched name holds the very weight tensor, and the very bias tensor if
\* there was one, of the module that was at that name, with the values they
\* held.
C10_Original ==
    pc = "ready" =>
        \A i \in 1..Len(HostKeys) :
            Matched(HostKeys[i]) =>
                /\ objs[Now(HostKeys[i])].weight
                       = orig.objs[Was(HostKeys[i])].weight
                /\ orig.objs[Was(HostKeys[i])].bias # 0
                       => objs[Now(HostKeys[i])].bias
                              = orig.objs[Was(HostKeys[i])].bias
                /\ tensors[orig.objs[Was(HostKeys[i])].weight].val
                       = orig.tensors[orig.objs[Was(HostKeys[i])].weight].val
                /\ tensors[orig.objs[Was(HostKeys[i])].weight].shape
                       = orig.tensors[orig.objs[Was(HostKeys[i])].weight].shape

\* C11 as claimed: on an enabled layer of rank r > 0 constructed with
\* lora_router = false, whose in_features and out_features are multiples of
\* 4, forward on an input of shape (batch, features) or
\* (batch, sequence, features) projects the reshaped input through lora_R,
\* gates the lora_A activations with it, and returns an output that holds
\* the adapter path.
C11_Original ==
    (/\ last.op = "forward"
     /\ objs[last.layer].r > 0
     /\ ~objs[last.layer].lora_router
     /\ ~objs[last.layer].disable_adapters
     /\ objs[last.layer].in_features % lora_head = 0
     /\ objs[last.layer].out_features % lora_head = 0
     /\ Len(last.x) \in {2, 3})
        => /\ HasChild(Heap, last.layer, S_lora_R)
           /\ last.status = "ok"
           /\ "lora" \in last.paths

====
